---------------------------- MODULE Spec2Model ----------------------------
(***************************************************************************)
(* The request-authorization pipeline of the platform's tRPC layer         *)
(* (apps/platform/trpc/trpc.ts) together with the session resolver that    *)
(* runs before it.  A request is resolved (cookie -> identity), then one   *)
(* of the composed procedures is called on it; a procedure is a chain of   *)
(* middlewares, each of which forwards the call or throws a TRPCError.     *)
(***************************************************************************)
EXTENDS Integers, Sequences, FiniteSets, TLC

VARIABLES
    runtimeConfig,   \* useRuntimeConfig(): billing, turnstile.secretKey, unkey.rootKey
    NODE_ENV,        \* process.env.NODE_ENV
    unkey,           \* the limiter instance each rate-limited route captured when it was built
    limiterStore,    \* the limiter service: calls counted in the current window, per namespace and identifier
    event,           \* the request being served: cookie, caller IP, context.user
    call,            \* the procedure call made on that request, with what it ran and how it ended
    accepted         \* per route and caller IP, the calls the Rate Limiter Gate let through in the current window

vars == <<runtimeConfig, NODE_ENV, unkey, limiterStore, event, call, accepted>>

-----------------------------------------------------------------------------
(* JavaScript values *)

\* null / undefined objects
Null == [isNull |-> TRUE]

\* an absent string (undefined)
Undefined == "<undefined>"

\* !s is false
TruthyStr(s) == s \notin {Undefined, ""}

\* !n is false
TruthyNum(n) == n # 0

\* !o is false
TruthyObj(o) == o # Null

-----------------------------------------------------------------------------
(* Bounds of the model *)

\* calls per window that the traffic of Spec sends through the rate-limited routes
MaxWindowCalls == 1

-----------------------------------------------------------------------------
(* The session store and the resolver *)

\* useStorage('sessions'): the records of the session store, by cookie value
sessionStorage ==
    [c \in {"s0", "s1"} |->
        [attributes |-> [user |-> [id |-> IF c = "s0" THEN 0 ELSE 1]]]]

\* sessionStorage.getItem(key)
getItem(key) == IF key \in DOMAIN sessionStorage THEN sessionStorage[key] ELSE Null

\* getCookie(event, 'unsession'): the values a request may carry
Cookies == {Undefined, "stale", "s0", "s1"}

\* getRequestIP(event)
IPs == {Undefined, "10.0.0.1"}

\* the value the handler leaves in event.context.user
userContext(sessionCookie) ==
    IF ~TruthyStr(sessionCookie) THEN Null
    ELSE LET sessionObject == getItem(sessionCookie)
         IN  IF ~TruthyObj(sessionObject) THEN Null
             ELSE [id |-> sessionObject.attributes.user.id,
                   session |-> sessionObject]

\* defineEventHandler: a request arrives and its session is resolved
\* (org: the organization the request selects, for createContext)
SessionResolver(cookie, ip, org) ==
    /\ event' = [cookie |-> cookie, ip |-> ip, org |-> org,
                 context |-> [user |-> userContext(cookie)]]
    /\ call' = Null
    /\ UNCHANGED <<runtimeConfig, NODE_ENV, unkey, limiterStore, accepted>>

-----------------------------------------------------------------------------
(* The procedure context *)

\* the organizations a request may select, with their member lists
Orgs ==
    { Null,
      [id |-> 100, members |-> << [id |-> 10, accountId |-> 3],
                                  [id |-> 11, accountId |-> 1],
                                  [id |-> 12, accountId |-> 1] >>],
      [id |-> 200, members |-> << [id |-> 20, accountId |-> 3],
                                  [id |-> 21, accountId |-> 2] >>] }

\* createContext: the resolved identity as ctx.account, the selected
\* organization, and the transport event
createContext(ev) ==
    [account |-> IF ev.context.user = Null THEN Null
                 ELSE [id |-> ev.context.user.id,
                       session |-> [attributes |->
                           [account |-> ev.context.user.session.attributes.user]]],
     org |-> ev.org,
     event |-> [cookie |-> ev.cookie, ip |-> ev.ip]]


-----------------------------------------------------------------------------
(* Middleware results *)

\* return next({ ctx }): the call goes on with ctx; did = the lookups and
\* external calls the middleware made
Forward(ctx, did) == [ok |-> TRUE, code |-> "OK", ctx |-> ctx, did |-> did]

\* throw new TRPCError({ code })
Throw(code, did) == [ok |-> FALSE, code |-> code, ctx |-> Null, did |-> did]

-----------------------------------------------------------------------------
(* Authentication Gate *)

\* a variant that tests the ids only when there is an account
isAccountAuthenticated_NullPasses(ctx) ==
    IF /\ TruthyObj(ctx.account)
       /\ \/ ~TruthyNum(ctx.account.session.attributes.account.id)
          \/ ~TruthyNum(ctx.account.id)
    THEN Throw("UNAUTHORIZED", {})
    ELSE Forward(ctx, {})

isAccountAuthenticated(ctx) ==
    IF \/ ~TruthyObj(ctx.account)
       \/ ~TruthyNum(ctx.account.session.attributes.account.id)
       \/ ~TruthyNum(ctx.account.id)
    THEN Throw("UNAUTHORIZED", {})
    ELSE Forward([ctx EXCEPT !.account = ctx.account], {})

-----------------------------------------------------------------------------
(* Organization Membership Gate *)

\* a variant that takes the last member with that accountId
find_Last(members, accountId) ==
    LET hits == {i \in 1..Len(members) : members[i].accountId = accountId}
    IN  IF hits = {} THEN Null
        ELSE members[CHOOSE i \in hits : \A j \in hits : i >= j]

\* members.find(predicate): the first member in list order with that
\* accountId, Null (undefined) when there is none
find(members, accountId) ==
    LET hits == {i \in 1..Len(members) : members[i].accountId = accountId}
    IN  IF hits = {} THEN Null
        ELSE members[CHOOSE i \in hits : \A j \in hits : i <= j]

\* a variant that takes a missing organization for one the account is no
\* member of
hasOrgSlug_MissingOrgUnauthorized(ctx) ==
    LET members       == IF TruthyObj(ctx.org) THEN ctx.org.members ELSE << >>
        orgMembership == find(members, ctx.account.id)
    IN  IF ~TruthyNum(ctx.account.id) \/ ~TruthyObj(orgMembership)
        THEN Throw("UNAUTHORIZED", {"members.find"})
        ELSE Forward([ctx EXCEPT !.org =
                         [f \in DOMAIN ctx.org \cup {"memberId"} |->
                             IF f = "memberId" THEN orgMembership.id
                             ELSE ctx.org[f]]],
                     {"members.find"})

\* a variant that forwards an org rebuilt from the membership alone
hasOrgSlug_RebuildsOrg(ctx) ==
    IF ~TruthyObj(ctx.org) THEN Throw("BAD_REQUEST", {})
    ELSE LET orgMembership == find(ctx.org.members, ctx.account.id)
         IN  IF ~TruthyNum(ctx.account.id) \/ ~TruthyObj(orgMembership)
             THEN Throw("UNAUTHORIZED", {"members.find"})
             ELSE Forward([ctx EXCEPT !.org =
                              [id |-> ctx.org.id, memberId |-> orgMembership.id]],
                          {"members.find"})

\* the function piped after isAccountAuthenticated
hasOrgSlug(ctx) ==
    IF ~TruthyObj(ctx.org) THEN Throw("BAD_REQUEST", {})
    ELSE LET hasAccount    == TruthyObj(ctx.account)
             orgMembership == IF hasAccount
                              THEN find(ctx.org.members, ctx.account.id)
                              ELSE Null
         IN  IF \/ ~hasAccount
                \/ ~TruthyNum(ctx.account.id)
                \/ ~TruthyObj(orgMembership)
             THEN Throw("UNAUTHORIZED", {"members.find"})
             ELSE Forward([ctx EXCEPT !.org =
                              [f \in DOMAIN ctx.org \cup {"memberId"} |->
                                  IF f = "memberId" THEN orgMembership.id
                                  ELSE ctx.org[f]]],
                          {"members.find"})

-----------------------------------------------------------------------------
(* Feature-Flag Gate *)

\* useRuntimeConfig().billing?.enabled
billingEnabled(config) ==
    IF config.billing = Null THEN FALSE ELSE config.billing.enabled

isEeEnabled(ctx, config) ==
    IF ~billingEnabled(config) THEN Throw("PRECONDITION_FAILED", {})
    ELSE Forward(ctx, {})

-----------------------------------------------------------------------------
(* Bot-Verification Gate *)

\* z.object({ turnstileToken: z.string() }): the input parser of a public
\* rate-limited procedure
inputParser(ctx, input) ==
    IF input.turnstileToken = Undefined THEN Throw("BAD_REQUEST", {})
    ELSE Forward(ctx, {})

\* a variant without the development bypass
turnstileTokenValidation_NoDevBypass(ctx, input, config, nodeEnv, verdict) ==
    IF ~TruthyStr(config.turnstile.secretKey) THEN Forward(ctx, {})
    ELSE IF ~TruthyStr(input.turnstileToken) THEN Throw("FORBIDDEN", {})
         ELSE IF ~verdict THEN Throw("BAD_REQUEST", {"verifyTurnstileToken"})
              ELSE Forward(ctx, {"verifyTurnstileToken"})

\* a variant that does not look at the secret before it asks for a token
turnstileTokenValidation_NoSecretBypass(ctx, input, config, nodeEnv, verdict) ==
    IF ~TruthyStr(input.turnstileToken)
    THEN IF nodeEnv = "development" THEN Forward(ctx, {})
         ELSE Throw("FORBIDDEN", {})
    ELSE IF ~verdict THEN Throw("BAD_REQUEST", {"verifyTurnstileToken"})
         ELSE Forward(ctx, {"verifyTurnstileToken"})

\* verdict: what verifyTurnstileToken answers when it is called
turnstileTokenValidation(ctx, input, config, nodeEnv, verdict) ==
    IF ~TruthyStr(config.turnstile.secretKey) THEN Forward(ctx, {})
    ELSE IF ~TruthyStr(input.turnstileToken)
         THEN IF nodeEnv = "development" THEN Forward(ctx, {})
              ELSE Throw("FORBIDDEN", {})
         ELSE IF ~verdict THEN Throw("BAD_REQUEST", {"verifyTurnstileToken"})
              ELSE Forward(ctx, {"verifyTurnstileToken"})

-----------------------------------------------------------------------------
(* Rate Limiter Gate *)

\* the limit of every entry of publicRateLimits
RouteLimit == 100

publicRateLimits ==
    [key \in {"checkUsernameAvailability", "checkPasswordStrength",
              "signUpPasskeyStart", "signUpPasskeyFinish",
              "generatePasskeyChallenge", "verifyPasskey",
              "signUpWithPassword", "signInWithPassword", "validateInvite"}
        |-> <<RouteLimit, "1m">>]

\* the identifiers the gate hands to the limiter
identifierOf(ip) == IF TruthyStr(ip) THEN ip ELSE "unknown"

Identifiers == {identifierOf(ip) : ip \in IPs}

\* the limiter createRatelimiter builds: new Ratelimit({...}) when a root key
\* is configured, new NoopRatelimit() otherwise
newLimiter(limit, duration, namespace, config) ==
    IF TruthyStr(config.unkey.rootKey)
    THEN [kind |-> "Ratelimit", limit |-> limit, duration |-> duration,
          namespace |-> namespace, rootKey |-> config.unkey.rootKey]
    ELSE [kind |-> "NoopRatelimit"]

\* unkey.limit(identifier): the limiter service counts the calls of the
\* current window per (namespace, identifier) and refuses the ones over the
\* limit; the no-op limiter always succeeds
limit(inst, identifier, store) ==
    IF inst.kind = "NoopRatelimit" THEN [success |-> TRUE, store |-> store]
    ELSE LET k == <<inst.namespace, identifier>>
         IN  IF store[k] < inst.limit
             THEN [success |-> TRUE, store |-> [store EXCEPT ![k] = @ + 1]]
             ELSE [success |-> FALSE, store |-> store]

\* a variant that does not look at the limiter's verdict
ratelimiter_IgnoresVerdict(ctx, inst, store) ==
    LET result == limit(inst, identifierOf(ctx.event.ip), store)
    IN  [res |-> Forward(ctx, {inst.kind \o ".limit"}), store |-> result.store]

\* the middleware createRatelimiter returns, closed over the limiter inst
ratelimiter(ctx, inst, store) ==
    LET ip     == ctx.event.ip
        result == limit(inst, identifierOf(ip), store)
    IN  IF ~result.success
        THEN [res |-> Throw("TOO_MANY_REQUESTS", {inst.kind \o ".limit"}),
              store |-> result.store]
        ELSE [res |-> Forward(ctx, {inst.kind \o ".limit"}),
              store |-> result.store]

-----------------------------------------------------------------------------
(* Procedure composition *)

\* one middleware of a chain, run on ctx; env holds what the call brings
\* (its input, the limiter of its route, the verification verdict) and the
\* configuration as it is read during the call
Middleware(name, ctx, env, store) ==
    CASE name = "isAccountAuthenticated" ->
            [res |-> isAccountAuthenticated(ctx), store |-> store]
      [] name = "hasOrgSlug" ->
            [res |-> hasOrgSlug(ctx), store |-> store]
      [] name = "isEeEnabled" ->
            [res |-> isEeEnabled(ctx, env.config), store |-> store]
      [] name = "input" ->
            [res |-> inputParser(ctx, env.input), store |-> store]
      [] name = "turnstileTokenValidation" ->
            [res |-> turnstileTokenValidation(ctx, env.input, env.config,
                                              env.nodeEnv, env.verdict),
             store |-> store]
      [] name = "ratelimiter" ->
            ratelimiter(ctx, env.inst, store)

\* a chain run in order: a middleware that throws ends it, and the handler
\* runs when every middleware has forwarded the call
RECURSIVE runChain(_, _, _, _, _)
runChain(chain, ctx, env, store, trace) ==
    IF chain = <<>>
    THEN [trace |-> Append(trace, [gate |-> "handler", code |-> "OK",
                                   did |-> {}, out |-> ctx]),
          code |-> "OK", ctx |-> ctx, store |-> store]
    ELSE LET m    == Middleware(Head(chain), ctx, env, store)
             step == [gate |-> Head(chain), code |-> m.res.code,
                      did |-> m.res.did, out |-> m.res.ctx]
         IN  IF m.res.ok
             THEN runChain(Tail(chain), m.res.ctx, env, m.store,
                           Append(trace, step))
             ELSE [trace |-> Append(trace, step), code |-> m.res.code,
                   ctx |-> Null, store |-> m.store]

publicProcedure == << >>

\* a variant with the limiter in front of the verification
publicRateLimitedProcedure_LimiterFirst ==
    [key \in DOMAIN publicRateLimits |->
        <<"input", "ratelimiter", "turnstileTokenValidation">>]

publicRateLimitedProcedure ==
    [key \in DOMAIN publicRateLimits |->
        <<"input", "turnstileTokenValidation", "ratelimiter">>]

accountProcedure == <<"isAccountAuthenticated">>

orgProcedure == <<"isAccountAuthenticated", "hasOrgSlug">>

\* a variant with the flag in front of the organization chain
eeProcedure_FlagFirst == <<"isEeEnabled">> \o orgProcedure

eeProcedure == orgProcedure \o <<"isEeEnabled">>

\* createRatelimiter as it is called when publicRateLimitedProcedure is
\* built: one limiter per route, under the configuration of that moment
createRatelimiter(config) ==
    [key \in DOMAIN publicRateLimits |->
        newLimiter(publicRateLimits[key][1], publicRateLimits[key][2],
                   "public." \o key, config)]

-----------------------------------------------------------------------------
(* Calls *)

NoInput == [turnstileToken |-> Undefined]

NoLimiter == [kind |-> "none"]

\* the routes, tokens and configuration values of the model
RouteNames == {"checkUsernameAvailability", "signInWithPassword"}

Tokens == {Undefined, "", "token"}

Configs ==
    [billing   : {Null, [enabled |-> FALSE], [enabled |-> TRUE]},
     turnstile : [secretKey : {"", "secret"}],
     unkey     : [rootKey : {"", "root"}]]

NodeEnvs == {"development", "production"}

\* a procedure called on the request being served
Call(procedure, route, chain, input, inst, verdict) ==
    /\ event # Null
    /\ LET ctx == createContext(event)
           env == [input |-> input, config |-> runtimeConfig,
                   nodeEnv |-> NODE_ENV, inst |-> inst, verdict |-> verdict]
           r   == runChain(chain, ctx, env, limiterStore, << >>)
           passedLimiter ==
               \E i \in 1..Len(r.trace) :
                   r.trace[i].gate = "ratelimiter" /\ r.trace[i].code = "OK"
       IN  /\ call' = [procedure |-> procedure, route |-> route,
                       input |-> input, ctx |-> ctx, trace |-> r.trace,
                       code |-> r.code, out |-> r.ctx]
           /\ limiterStore' = r.store
           /\ accepted' = IF passedLimiter
                          THEN [accepted EXCEPT ![<<route, event.ip>>] = @ + 1]
                          ELSE accepted
    /\ UNCHANGED <<runtimeConfig, NODE_ENV, unkey, event>>

CallPublic ==
    Call("public", "-", publicProcedure, NoInput, NoLimiter, FALSE)

CallAccount ==
    Call("account", "-", accountProcedure, NoInput, NoLimiter, FALSE)

CallOrg ==
    Call("org", "-", orgProcedure, NoInput, NoLimiter, FALSE)

CallEe ==
    Call("ee", "-", eeProcedure, NoInput, NoLimiter, FALSE)

\* a variant whose limiter is built at the call, under the configuration of
\* the call
CallPublicRateLimited_LimiterPerCall(route, token, verdict) ==
    Call("publicRateLimited", route, publicRateLimitedProcedure[route],
         [turnstileToken |-> token], createRatelimiter(runtimeConfig)[route],
         verdict)

CallPublicRateLimited(route, token, verdict) ==
    Call("publicRateLimited", route, publicRateLimitedProcedure[route],
         [turnstileToken |-> token], unkey[route], verdict)

\* the window of one (namespace, identifier) pair of the limiter rolls over
WindowExpires(route, ip) ==
    /\ accepted[<<route, ip>>] > 0
    /\ limiterStore' = [limiterStore EXCEPT
                           ![<<"public." \o route, identifierOf(ip)>>] = 0]
    /\ accepted' = [accepted EXCEPT ![<<route, ip>>] = 0]
    /\ UNCHANGED <<runtimeConfig, NODE_ENV, unkey, event, call>>

\* the process-wide configuration changes while the server runs
SetBilling(b) ==
    /\ runtimeConfig.billing # b
    /\ runtimeConfig' = [runtimeConfig EXCEPT !.billing = b]
    /\ UNCHANGED <<NODE_ENV, unkey, limiterStore, event, call, accepted>>

SetSecretKey(k) ==
    /\ runtimeConfig.turnstile.secretKey # k
    /\ runtimeConfig' = [runtimeConfig EXCEPT !.turnstile.secretKey = k]
    /\ UNCHANGED <<NODE_ENV, unkey, limiterStore, event, call, accepted>>

SetRootKey(k) ==
    /\ runtimeConfig.unkey.rootKey # k
    /\ runtimeConfig' = [runtimeConfig EXCEPT !.unkey.rootKey = k]
    /\ UNCHANGED <<NODE_ENV, unkey, limiterStore, event, call, accepted>>

SetNodeEnv(e) ==
    /\ NODE_ENV # e
    /\ NODE_ENV' = e
    /\ UNCHANGED <<runtimeConfig, unkey, limiterStore, event, call, accepted>>

-----------------------------------------------------------------------------
(* Specifications *)

\* the calls the gate let through in the current window, over all routes and IPs
RECURSIVE Sum(_, _)
Sum(f, S) ==
    IF S = {} THEN 0
    ELSE LET x == CHOOSE y \in S : TRUE IN f[x] + Sum(f, S \ {x})

WindowLoad == Sum(accepted, DOMAIN accepted)

\* the module is loaded: the procedures are built under the configuration
\* of that moment, and no request has arrived
Init ==
    /\ runtimeConfig \in Configs
    /\ NODE_ENV \in NodeEnvs
    /\ unkey = createRatelimiter(runtimeConfig)
    /\ limiterStore = [k \in {"public." \o key : key \in RouteNames} \X Identifiers |-> 0]
    /\ event = Null
    /\ call = Null
    /\ accepted = [k \in RouteNames \X IPs |-> 0]

\* the requests of the model: every cookie with every organization from
\* one address, and an anonymous request that carries no address
Requests ==
    {[cookie |-> c, ip |-> "10.0.0.1", org |-> o] : c \in Cookies, o \in Orgs}
        \cup {[cookie |-> Undefined, ip |-> Undefined, org |-> Null]}

Arrive == \E r \in Requests : SessionResolver(r.cookie, r.ip, r.org)

AuthTraffic == CallPublic \/ CallAccount \/ CallOrg \/ CallEe

RateLimitedTraffic ==
    /\ WindowLoad < MaxWindowCalls
    /\ \E route \in RouteNames, token \in Tokens, verdict \in BOOLEAN :
           CallPublicRateLimited(route, token, verdict)

Rollover == \E route \in RouteNames, ip \in IPs : WindowExpires(route, ip)

Reconfigure ==
    \/ \E b \in {Null, [enabled |-> FALSE], [enabled |-> TRUE]} : SetBilling(b)
    \/ \E k \in {"", "secret"} : SetSecretKey(k)
    \/ \E k \in {"", "root"} : SetRootKey(k)
    \/ \E e \in NodeEnvs : SetNodeEnv(e)

Next == Arrive \/ AuthTraffic \/ RateLimitedTraffic \/ Rollover \/ Reconfigure

Spec == Init /\ [][Next]_vars

-----------------------------------------------------------------------------
(* A burst on one route from one address, over background traffic *)

BurstRoute == "signInWithPassword"

BurstIP == "10.0.0.1"

\* the calls of the window that are not the burst's
BackgroundLoad == WindowLoad - accepted[<<BurstRoute, BurstIP>>]

\* bot verification is not configured, so that every call with a token
\* reaches the Rate Limiter Gate
InitLimit ==
    /\ Init
    /\ runtimeConfig.turnstile.secretKey = ""
    /\ runtimeConfig.billing = Null
    /\ NODE_ENV = "production"

ArriveAnonymous == \E ip \in IPs : SessionResolver(Undefined, ip, Null)

\* the burst goes on until one call more than the limit was let through or
\* refused
Burst ==
    /\ event # Null
    /\ event.ip = BurstIP
    /\ accepted[<<BurstRoute, BurstIP>>] <= RouteLimit
    /\ \E token \in Tokens : CallPublicRateLimited(BurstRoute, token, TRUE)

Background ==
    /\ event # Null
    /\ BackgroundLoad < MaxWindowCalls
    /\ \E route \in RouteNames, token \in Tokens :
          /\ <<route, event.ip>> # <<BurstRoute, BurstIP>>
          /\ CallPublicRateLimited(route, token, TRUE)

NextLimit == ArriveAnonymous \/ Burst \/ Background \/ Rollover

SpecLimit == InitLimit /\ [][NextLimit]_vars

-----------------------------------------------------------------------------
(* What a call record says *)

\* the gates the call ran, in order
Gates(c) == [i \in 1..Len(c.trace) |-> c.trace[i].gate]

Ran(c, gate) == \E i \in 1..Len(c.trace) : c.trace[i].gate = gate

\* the step of the call at that gate
StepAt(c, gate) == c.trace[CHOOSE i \in 1..Len(c.trace) : c.trace[i].gate = gate]

\* the gate the call ended at ("handler" when none threw)
EndedAt(c) == c.trace[Len(c.trace)].gate

\* the lookups and external calls of the whole call
Did(c) == UNION {c.trace[i].did : i \in 1..Len(c.trace)}

\* this step is a call of a public rate-limited procedure: call' is its record
RateLimitedCallStep ==
    /\ call' # Null
    /\ call'.procedure = "publicRateLimited"
    /\ \E verdict \in BOOLEAN :
          CallPublicRateLimited(call'.route, call'.input.turnstileToken, verdict)

\* this step is a call of the Enterprise procedure
EeCallStep ==
    /\ call' # Null
    /\ call'.procedure = "ee"
    /\ CallEe

-----------------------------------------------------------------------------
(* C4: on a public rate-limited route whose limiter was built with a root
   key and limit N (the limiter service counting the calls of a window
   exactly), a call that reaches the Rate Limiter Gate is let through while
   fewer than N calls from its IP were let through on that route in the
   current window, and is rejected with TOO_MANY_REQUESTS once N were; with
   no root key configured (the no-op limiter) no call is rejected with
   TOO_MANY_REQUESTS, however many were let through before. *)
C4_RateLimit ==
    [][RateLimitedCallStep =>
              LET before == accepted[<<call'.route, event.ip>>]
                  N      == publicRateLimits[call'.route][1]
              IN  IF TruthyStr(runtimeConfig.unkey.rootKey)
                  THEN Ran(call', "ratelimiter") =>
                          /\ before = N => call'.code = "TOO_MANY_REQUESTS"
                          /\ before < N => call'.code = "OK"
                          /\ before <= N
                  ELSE call'.code # "TOO_MANY_REQUESTS"]_vars

\* the call after N accepted calls was rejected
C4_Witness ==
    /\ call # Null
    /\ call.code = "TOO_MANY_REQUESTS"
    /\ accepted[<<BurstRoute, BurstIP>>] = RouteLimit

-----------------------------------------------------------------------------
(* C1: a request without the session cookie, or whose cookie has no record
   in the session store, gets the identity null, and on it none of the
   Account, Organization and Enterprise procedures reaches its handler: each
   ends with UNAUTHORIZED at the Authentication Gate, the first gate. *)
C1_NullIdentityStopsAuthenticated ==
    (event # Null /\ event.cookie \notin {"s0", "s1"}) =>
        /\ event.context.user = Null
        /\ (call # Null /\ call.procedure \in {"account", "org", "ee"}) =>
              /\ call.ctx.account = Null
              /\ call.code = "UNAUTHORIZED"
              /\ Gates(call) = <<"isAccountAuthenticated">>
              /\ call.out = Null

\* an Enterprise call on a request whose cookie is not in the store
C1_Witness ==
    /\ event # Null
    /\ event.cookie = "stale"
    /\ call # Null
    /\ call.procedure = "ee"
    /\ call.code = "UNAUTHORIZED"

-----------------------------------------------------------------------------
(* C2: when the Organization Membership Gate runs with a selected
   organization, it throws UNAUTHORIZED if no member of the list has the
   identity's id as accountId; otherwise it forwards a context whose
   org.memberId is the id of the first such member in list order, the other
   fields of org being those it received. *)
C2_MembershipGate ==
    (call # Null /\ Ran(call, "hasOrgSlug") /\ call.ctx.org # Null) =>
        LET step    == StepAt(call, "hasOrgSlug")
            org     == call.ctx.org
            id      == call.ctx.account.id
            matches == {i \in 1..Len(org.members) : org.members[i].accountId = id}
        IN  IF matches = {}
            THEN step.code = "UNAUTHORIZED" /\ EndedAt(call) = "hasOrgSlug"
            ELSE /\ step.code = "OK"
                 /\ \E i \in matches :
                       /\ \A j \in 1..(i - 1) : j \notin matches
                       /\ step.out.org.memberId = org.members[i].id
                 /\ DOMAIN step.out.org = DOMAIN org \cup {"memberId"}
                 /\ \A f \in DOMAIN org : step.out.org[f] = org[f]

\* account 1 is the second and the third member of organization 100: the
\* gate forwarded the second member's id
C2_Witness ==
    /\ call # Null
    /\ call.procedure = "org"
    /\ call.code = "OK"
    /\ call.ctx.org.id = 100
    /\ call.out.org.memberId = 11

-----------------------------------------------------------------------------
(* C3: when the Organization Membership Gate runs (the request is
   authenticated) on a context with no selected organization, it throws
   BAD_REQUEST and the call made no scan of a member list. *)
C3_NoOrgIsBadRequest ==
    (call # Null /\ Ran(call, "hasOrgSlug") /\ call.ctx.org = Null) =>
        /\ StepAt(call, "hasOrgSlug").code = "BAD_REQUEST"
        /\ call.code = "BAD_REQUEST"
        /\ EndedAt(call) = "hasOrgSlug"
        /\ "members.find" \notin Did(call)

C3_Witness ==
    /\ call # Null
    /\ call.procedure = "org"
    /\ call.ctx.account # Null
    /\ call.ctx.org = Null
    /\ call.code = "BAD_REQUEST"

-----------------------------------------------------------------------------
(* C5: on an Enterprise call the enterprise flag decides nothing before the
   Feature-Flag Gate: what the Authentication and Organization Membership
   gates do is the same with the flag on and off, and the call ends with
   PRECONDITION_FAILED exactly when the flag is off at the time of the call
   and both earlier gates have forwarded it. *)

\* the Enterprise chain run on the request being served, with the flag as given
EeRun(flag) ==
    runChain(eeProcedure, createContext(event),
             [input |-> NoInput,
              config |-> [runtimeConfig EXCEPT !.billing = [enabled |-> flag]],
              nodeEnv |-> NODE_ENV, inst |-> NoLimiter, verdict |-> FALSE],
             limiterStore, << >>)

\* the steps of a run at the two earlier gates
EarlierSteps(r) ==
    {st \in {r.trace[i] : i \in 1..Len(r.trace)} :
        st.gate \in {"isAccountAuthenticated", "hasOrgSlug"}}

\* both earlier gates forwarded the call
EarlierPassed(c) ==
    /\ Ran(c, "isAccountAuthenticated")
    /\ StepAt(c, "isAccountAuthenticated").code = "OK"
    /\ Ran(c, "hasOrgSlug")
    /\ StepAt(c, "hasOrgSlug").code = "OK"

C5_FlagDecidesOnlyAtItsGate ==
    [][EeCallStep =>
          /\ EarlierSteps(EeRun(TRUE)) = EarlierSteps(EeRun(FALSE))
          /\ EarlierSteps(call') = EarlierSteps(EeRun(TRUE))
          /\ call'.code = "PRECONDITION_FAILED"
                <=> (~billingEnabled(runtimeConfig) /\ EarlierPassed(call'))
          /\ call'.code = "PRECONDITION_FAILED"
                => EndedAt(call') = "isEeEnabled"]_vars

C5_Witness ==
    /\ call # Null
    /\ call.procedure = "ee"
    /\ call.code = "PRECONDITION_FAILED"
    /\ EarlierPassed(call)

-----------------------------------------------------------------------------
(* C6: with a verification secret configured, a call that comes to the
   Bot-Verification Gate without a token is forwarded in development mode
   and is rejected with FORBIDDEN in any other mode; in both cases the
   verification API is not called. *)
C6_NoTokenDevelopmentBypass ==
    [][(/\ RateLimitedCallStep
        /\ TruthyStr(runtimeConfig.turnstile.secretKey)
        /\ ~TruthyStr(call'.input.turnstileToken)
        /\ Ran(call', "turnstileTokenValidation")) =>
              /\ "verifyTurnstileToken" \notin Did(call')
              /\ IF NODE_ENV = "development"
                 THEN StepAt(call', "turnstileTokenValidation").code = "OK"
                 ELSE /\ call'.code = "FORBIDDEN"
                      /\ EndedAt(call') = "turnstileTokenValidation"]_vars

\* the development bypass taken
C6_Witness ==
    /\ call # Null
    /\ call.procedure = "publicRateLimited"
    /\ call.input.turnstileToken = ""
    /\ runtimeConfig.turnstile.secretKey = "secret"
    /\ NODE_ENV = "development"
    /\ Ran(call, "ratelimiter")

-----------------------------------------------------------------------------
(* C7: with no verification secret configured, no call is stopped by the
   Bot-Verification Gate, whatever its token and whatever the runtime mode:
   every call that comes to the gate is forwarded by it, and the
   verification API is not called. *)
C7_NoSecretAlwaysPasses ==
    [][(/\ RateLimitedCallStep
        /\ ~TruthyStr(runtimeConfig.turnstile.secretKey)) =>
              /\ "verifyTurnstileToken" \notin Did(call')
              /\ EndedAt(call') # "turnstileTokenValidation"
              /\ Ran(call', "turnstileTokenValidation") =>
                    StepAt(call', "turnstileTokenValidation").code = "OK"
              /\ call'.input.turnstileToken # Undefined
                    => Ran(call', "ratelimiter")]_vars

\* a call with a token went through without the verification API
C7_Witness ==
    /\ call # Null
    /\ call.procedure = "publicRateLimited"
    /\ call.input.turnstileToken = "token"
    /\ runtimeConfig.turnstile.secretKey = ""
    /\ Ran(call, "ratelimiter")
    /\ "verifyTurnstileToken" \notin Did(call)

-----------------------------------------------------------------------------
(* C8: which configuration a call goes by *)

\* the limiter a call consulted: "Ratelimit", "NoopRatelimit", or "none"
LimiterConsulted(c) ==
    IF "Ratelimit.limit" \in Did(c) THEN "Ratelimit"
    ELSE IF "NoopRatelimit.limit" \in Did(c) THEN "NoopRatelimit"
    ELSE "none"

\* the limiter the root key configured at this moment asks for
LimiterConfigured ==
    IF TruthyStr(runtimeConfig.unkey.rootKey) THEN "Ratelimit" ELSE "NoopRatelimit"

\* the Feature-Flag Gate goes by the enterprise flag as it is at the call
FlagPerCall ==
    (EeCallStep /\ Ran(call', "isEeEnabled")) =>
        (StepAt(call', "isEeEnabled").code = "OK" <=> billingEnabled(runtimeConfig))

\* the Bot-Verification Gate goes by the secret as it is at the call: a call
\* with a token is verified exactly when a secret is configured
SecretPerCall ==
    (/\ RateLimitedCallStep
     /\ TruthyStr(call'.input.turnstileToken)) =>
        ("verifyTurnstileToken" \in Did(call')
            <=> TruthyStr(runtimeConfig.turnstile.secretKey))

\* the Bot-Verification Gate goes by the runtime mode as it is at the call
ModePerCall ==
    (/\ RateLimitedCallStep
     /\ call'.input.turnstileToken = ""
     /\ TruthyStr(runtimeConfig.turnstile.secretKey)) =>
        (StepAt(call', "turnstileTokenValidation").code = "OK"
            <=> NODE_ENV = "development")

\* the Rate Limiter Gate goes by the root key as it is at the call
RootKeyPerCall ==
    (RateLimitedCallStep /\ Ran(call', "ratelimiter")) =>
        LimiterConsulted(call') = LimiterConfigured

\* the Rate Limiter Gate goes by the limiter its route was built with, which
\* no later change of the root key replaces
RootKeyAtBuild ==
    /\ unkey' = unkey
    /\ (RateLimitedCallStep /\ Ran(call', "ratelimiter")) =>
          LimiterConsulted(call') = unkey[call'.route].kind

(* C8 as stated: each of the four configuration values (enterprise flag,
   verification secret, rate-limiter root key, runtime mode) is consulted on
   each call, so that its value at the time of a call decides that call; in
   particular the root key configured at the time of a call decides whether
   the real or the no-op limiter is consulted. *)
C8_AllFourPerCall ==
    [][FlagPerCall /\ SecretPerCall /\ ModePerCall /\ RootKeyPerCall]_vars

(* C8 amended: the enterprise flag, the verification secret and the runtime
   mode are consulted on each call; the root key is read once, when the
   procedures are built: each route consults the limiter (real or no-op)
   built for it under the root key of that moment, and a later change of the
   root key does not switch it. *)
C8_ThreePerCallRootKeyAtBuild ==
    /\ \A route \in DOMAIN unkey : unkey[route].kind = LimiterConfigured
    /\ [][FlagPerCall /\ SecretPerCall /\ ModePerCall /\ RootKeyAtBuild]_vars

\* a call consulted the no-op limiter although a root key is configured
C8_Witness ==
    /\ call # Null
    /\ call.procedure = "publicRateLimited"
    /\ LimiterConsulted(call) = "NoopRatelimit"
    /\ runtimeConfig.unkey.rootKey = "root"
    /\ accepted[<<call.route, event.ip>>] > 0

-----------------------------------------------------------------------------
(* C9: in every procedure the gates run in the declared order and a gate
   that throws ends the chain: no later gate and no handler runs.  On a
   public rate-limited route a call that the Bot-Verification Gate (or the
   input parser before it) stops does not consult the limiter and uses no
   quota; on an Enterprise route the Feature-Flag Gate is not evaluated when
   an earlier gate throws. *)

\* the gates of each procedure, in the order .use() declares them
DeclaredOrder(procedure) ==
    CASE procedure = "public"  -> << >>
      [] procedure = "account" -> <<"isAccountAuthenticated">>
      [] procedure = "org"     -> <<"isAccountAuthenticated", "hasOrgSlug">>
      [] procedure = "ee"      -> <<"isAccountAuthenticated", "hasOrgSlug",
                                    "isEeEnabled">>
      [] procedure = "publicRateLimited" ->
            <<"input", "turnstileTokenValidation", "ratelimiter">>

\* the call ran a prefix of its chain; only its last step may have thrown;
\* the handler ran exactly when no gate threw
FailFast(c) ==
    LET order == DeclaredOrder(c.procedure) \o <<"handler">>
        n     == Len(c.trace)
    IN  /\ n >= 1
        /\ n <= Len(order)
        /\ \A i \in 1..n : c.trace[i].gate = order[i]
        /\ \A i \in 1..(n - 1) : c.trace[i].code = "OK"
        /\ c.code = c.trace[n].code
        /\ IF c.code = "OK"
           THEN n = Len(order) /\ c.out = c.trace[n].out
           ELSE ~Ran(c, "handler") /\ c.out = Null

C9_FailFast ==
    [][/\ call' # Null => FailFast(call')
       /\ (RateLimitedCallStep /\ ~Ran(call', "ratelimiter")) =>
             /\ LimiterConsulted(call') = "none"
             /\ limiterStore' = limiterStore
             /\ accepted' = accepted
       /\ (EeCallStep /\ ~EarlierPassed(call')) =>
             ~Ran(call', "isEeEnabled")]_vars

\* the Bot-Verification Gate stopped a call on a route with a real limiter
C9_Witness ==
    /\ call # Null
    /\ call.procedure = "publicRateLimited"
    /\ call.code = "FORBIDDEN"
    /\ unkey[call.route].kind = "Ratelimit"

-----------------------------------------------------------------------------
(* C10: every gate that forwards a call forwards the context it received,
   with nothing removed or changed: identity, transport event, organization
   and each of its fields keep their values.  The one addition is
   org.memberId, by the Organization Membership Gate; every other gate
   forwards the context unchanged. *)

\* the context the i-th step of a call received
Received(c, i) == IF i = 1 THEN c.ctx ELSE c.trace[i - 1].out

AppendOnly(c, i) ==
    LET in  == Received(c, i)
        out == c.trace[i].out
    IN  IF c.trace[i].gate = "hasOrgSlug"
        THEN /\ DOMAIN out = DOMAIN in
             /\ \A f \in DOMAIN in \ {"org"} : out[f] = in[f]
             /\ DOMAIN out.org = DOMAIN in.org \cup {"memberId"}
             /\ "memberId" \notin DOMAIN in.org
             /\ \A f \in DOMAIN in.org : out.org[f] = in.org[f]
        ELSE out = in

C10_AppendOnlyContext ==
    call # Null =>
        \A i \in 1..Len(call.trace) :
            call.trace[i].code = "OK" => AppendOnly(call, i)

\* an Enterprise call went through all three gates
C10_Witness ==
    /\ call # Null
    /\ call.procedure = "ee"
    /\ call.code = "OK"
    /\ call.out.org.memberId = 11
    /\ call.out.account = call.ctx.account

=============================================================================
